---- MODULE Spec2Model ----
(***************************************************************************)
(* Model of app/api/deepseek.ts: handle() and request(), the DeepSeek      *)
(* streaming proxy.  One inbound request is modelled: the orchestrator     *)
(* (handle/request), the background drain task (the async closure of       *)
(* request), the timeout timer, the upstream body and the client-facing    *)
(* TransformStream.                                                        *)
(*                                                                         *)
(* Text is modelled character by character with TLA+ strings.  A byte of   *)
(* the upstream body is written as the ASCII character it encodes; the two *)
(* bytes 0xC3 0xA9 of one two-byte UTF-8 character are written LeadByte    *)
(* and ContByte, the character they decode to DecodedChar, and U+FFFD      *)
(* ReplacementChar.                                                        *)
(***************************************************************************)
EXTENDS Integers, Sequences, FiniteSets, TLC

(***************************************************************************)
(* JavaScript string primitives used by the drain loop.                    *)
(***************************************************************************)
StartsWith(s, p) == Len(s) >= Len(p) /\ SubSeq(s, 1, Len(p)) = p

EndsWith(s, p) == Len(s) >= Len(p) /\ SubSeq(s, Len(s) - Len(p) + 1, Len(s)) = p

\* String.prototype.indexOf, 1-based; 0 when sep does not occur at or after from.
IndexOf(s, sep, from) ==
  LET hits == {i \in from..(Len(s) - Len(sep) + 1) :
                 SubSeq(s, i, i + Len(sep) - 1) = sep}
  IN IF hits = {} THEN 0 ELSE CHOOSE i \in hits : \A j \in hits : i <= j

RECURSIVE ConcatRange(_, _, _)
\* parts[lo] \o ... \o parts[hi]
ConcatRange(parts, lo, hi) ==
  IF lo > hi THEN ""
  ELSE IF lo = hi THEN parts[lo]
  ELSE LET mid == (lo + hi) \div 2
       IN ConcatRange(parts, lo, mid) \o ConcatRange(parts, mid + 1, hi)

RECURSIVE Split(_, _)
\* String.prototype.split(sep) for a non-empty separator.
Split(s, sep) ==
  LET i == IndexOf(s, sep, 1) IN
  IF i = 0 THEN <<s>>
  ELSE <<SubSeq(s, 1, i - 1)>> \o Split(SubSeq(s, i + Len(sep), Len(s)), sep)

RECURSIVE Join(_, _)
\* Array.prototype.join(sep): the inverse of Split on a non-empty array.
Join(parts, sep) ==
  IF Len(parts) = 0 THEN ""
  ELSE IF Len(parts) = 1 THEN parts[1]
  ELSE parts[1] \o sep \o Join(Tail(parts), sep)

WhiteSpace == {" ", "\n", "\t", "\r"}

RECURSIVE TrimStart(_)
TrimStart(s) ==
  IF Len(s) > 0 /\ SubSeq(s, 1, 1) \in WhiteSpace
  THEN TrimStart(SubSeq(s, 2, Len(s))) ELSE s

RECURSIVE TrimEnd(_)
TrimEnd(s) ==
  IF Len(s) > 0 /\ SubSeq(s, Len(s), Len(s)) \in WhiteSpace
  THEN TrimEnd(SubSeq(s, 1, Len(s) - 1)) ELSE s

\* String.prototype.trim
Trim(s) == TrimEnd(TrimStart(s))

(***************************************************************************)
(* TextDecoder, decode(value, {stream: true}): UTF-8, keeping an           *)
(* incomplete multi-byte sequence for the next call.                       *)
(***************************************************************************)
LeadByte == "%"
ContByte == "&"
DecodedChar == "$"
ReplacementChar == "?"

\* [text, pending]: the characters decoded from pending \o bytes, and the
\* incomplete sequence kept for the next call.  A lead byte and the
\* continuation byte after it decode to one character; a lead byte followed
\* by anything else, and a continuation byte with no lead byte before it,
\* decode to U+FFFD; a lead byte at the end is kept.
DecodeBytes(pending, bytes) ==
  LET all == pending \o bytes
      n == Len(all)
      At(i) == SubSeq(all, i, i)
      out == [i \in 1..n |->
                IF At(i) = LeadByte THEN
                  IF i = n THEN ""
                  ELSE IF At(i + 1) = ContByte THEN DecodedChar
                  ELSE ReplacementChar
                ELSE IF At(i) = ContByte THEN
                  IF i > 1 /\ At(i - 1) = LeadByte THEN "" ELSE ReplacementChar
                ELSE At(i)]
  IN [text |-> ConcatRange(out, 1, n),
      pending |-> IF n > 0 /\ At(n) = LeadByte THEN LeadByte ELSE ""]

\* decoder.decode(value, { stream: true })
DecodeStream(pending, value) == DecodeBytes(pending, value)

(***************************************************************************)
(* JSON.parse, on the documents the upstream sends, followed by the lookup *)
(* jsonData.choices?.[0]?.delta?.reasoning_content.  A text that is none   *)
(* of the documents below is not JSON: SyntaxError.                        *)
(***************************************************************************)
DocPrefix == "{\"choices\":[{\"delta\":{\"reasoning_content\":\""
DocSuffix == "\"}}]}"
ContentDoc == "{\"choices\":[{\"delta\":{\"content\":\"hi\"}}]}"
EmptyObjectDoc == "{}"
NullDoc == "null"

\* The character at i of a string body follows an escaping backslash: the
\* run of backslashes just before it has odd length.
IsEscaped(body, i) ==
  Cardinality({k \in 1..(i - 1) :
                 \A j \in k..(i - 1) : SubSeq(body, j, j) = "\\"}) % 2 = 1

\* The body of a JSON string literal: no bare quote, no control character,
\* every backslash followed by an escape character.
JsonStringOk(body) ==
  \A i \in 1..Len(body) :
    LET c == SubSeq(body, i, i) IN
    IF IsEscaped(body, i) THEN c \in {"n", "\"", "\\"}
    ELSE IF c = "\\" THEN i < Len(body)
    ELSE c \notin {"\"", "\n", "\t", "\r"}

\* The string a JSON string literal's body denotes.
JsonUnescape(body) ==
  LET out == [i \in 1..Len(body) |->
                LET c == SubSeq(body, i, i) IN
                IF IsEscaped(body, i) THEN (IF c = "n" THEN "\n" ELSE c)
                ELSE IF c = "\\" THEN ""
                ELSE c]
  IN ConcatRange(out, 1, Len(body))

\* [throws, reasoning_content]: throws is a SyntaxError of JSON.parse or the
\* TypeError of reading .choices of null; reasoning_content is "" when the
\* field is absent (undefined) or empty, both falsy.
ParseReasoning(jsonStr) ==
  IF jsonStr = NullDoc THEN [throws |-> TRUE, reasoning_content |-> ""]
  ELSE IF jsonStr \in {ContentDoc, EmptyObjectDoc}
    THEN [throws |-> FALSE, reasoning_content |-> ""]
  ELSE IF /\ Len(jsonStr) >= Len(DocPrefix) + Len(DocSuffix)
          /\ StartsWith(jsonStr, DocPrefix)
          /\ EndsWith(jsonStr, DocSuffix)
          /\ JsonStringOk(SubSeq(jsonStr, Len(DocPrefix) + 1,
                                 Len(jsonStr) - Len(DocSuffix)))
    THEN [throws |-> FALSE,
          reasoning_content |->
            JsonUnescape(SubSeq(jsonStr, Len(DocPrefix) + 1,
                                Len(jsonStr) - Len(DocSuffix)))]
  ELSE [throws |-> TRUE, reasoning_content |-> ""]

(***************************************************************************)
(* The side channel of the drain loop: framing and extraction.  A side     *)
(* state is the record [pending, buffer, reasoningBuffer, log, extracted]  *)
(* of the decoder's kept bytes, the closure variables buffer and           *)
(* reasoningBuffer, the console.log calls made so far (one sequence of     *)
(* lines for each flush) and, as history, every reasoningContent appended. *)
(***************************************************************************)
LOG_THRESHOLD == 32

\* line.startsWith("data:")
IsDataLine(line) == StartsWith(line, "data:")

\* line.replace(/^data: /, "")
StripDataPrefix(line) ==
  IF StartsWith(line, "data: ") THEN SubSeq(line, 7, Len(line)) ELSE line

\* The console.log calls of one flush: reasoningBuffer.split("\n"), one call
\* for each line.
LinesToLog(text) == Split(text, "\n")

\* AppendReasoning flushing only above the threshold.
AppendReasoningAbove(s, reasoningContent) ==
  LET rb == s.reasoningBuffer \o reasoningContent
      ex == s.extracted \o reasoningContent
  IN
  IF Len(rb) > LOG_THRESHOLD
  THEN [s EXCEPT !.reasoningBuffer = "",
                 !.log = Append(s.log, Split(rb, "\n")),
                 !.extracted = ex]
  ELSE [s EXCEPT !.reasoningBuffer = rb, !.extracted = ex]

\* AppendReasoning with the flush leaving the accumulator as it is.
AppendReasoningNoClear(s, reasoningContent) ==
  LET rb == s.reasoningBuffer \o reasoningContent
      ex == s.extracted \o reasoningContent
  IN
  IF Len(rb) >= LOG_THRESHOLD
  THEN [s EXCEPT !.reasoningBuffer = rb,
                 !.log = Append(s.log, Split(rb, "\n")),
                 !.extracted = ex]
  ELSE [s EXCEPT !.reasoningBuffer = rb, !.extracted = ex]

\* reasoningBuffer += reasoningContent, then the threshold flush.
AppendReasoning(s, reasoningContent) ==
  LET rb == s.reasoningBuffer \o reasoningContent
      ex == s.extracted \o reasoningContent
  IN
  IF Len(rb) >= LOG_THRESHOLD
  THEN [s EXCEPT !.reasoningBuffer = "",
                 !.log = Append(s.log, LinesToLog(rb)),
                 !.extracted = ex]
  ELSE [s EXCEPT !.reasoningBuffer = rb, !.extracted = ex]

\* The body of the try block for one line: [threw, side].
TryLine(s, line) ==
  LET jsonStr == Trim(StripDataPrefix(line)) IN
  IF jsonStr = "[DONE]" THEN [threw |-> FALSE, side |-> s]
  ELSE
    LET r == ParseReasoning(jsonStr) IN
    IF r.throws THEN [threw |-> TRUE, side |-> s]
    ELSE IF r.reasoning_content = "" THEN [threw |-> FALSE, side |-> s]
    ELSE [threw |-> FALSE, side |-> AppendReasoning(s, r.reasoning_content)]

RECURSIVE ProcessLinesOuterTry(_, _)
\* ProcessLines with the try around the loop: the first line that throws
\* ends the loop.
ProcessLinesOuterTry(s, lines) ==
  IF Len(lines) = 0 THEN s
  ELSE LET r == TryLine(s, Head(lines)) IN
       IF r.threw THEN s ELSE ProcessLinesOuterTry(r.side, Tail(lines))

RECURSIVE ProcessLines(_, _)
\* for (const line of lines) { try { ... } catch (e) { } }
ProcessLines(s, lines) ==
  IF Len(lines) = 0 THEN s
  ELSE ProcessLines(TryLine(s, Head(lines)).side, Tail(lines))

\* chunk.split("\n").filter((line) => line.startsWith("data:"))
DataLines(chunk) == SelectSeq(Split(chunk, "\n"), IsDataLine)

RECURSIVE ProcessBlocks(_, _)
\* for (const chunk of chunks) { ... }
ProcessBlocks(s, chunks) ==
  IF Len(chunks) = 0 THEN s
  ELSE ProcessBlocks(ProcessLines(s, DataLines(Head(chunks))), Tail(chunks))

\* PopTail with the remainder thrown away: buffer = "".
PopTailDropped(parts) == ""

\* buffer = chunks.pop() || ""
PopTail(parts) == parts[Len(parts)]

\* One iteration of the loop between reader.read() and writer.write(value).
ProcessChunk(s, value) ==
  LET d == DecodeStream(s.pending, value)
      parts == Split(s.buffer \o d.text, "\n\n")
      chunks == SubSeq(parts, 1, Len(parts) - 1)
  IN ProcessBlocks([s EXCEPT !.pending = d.pending, !.buffer = PopTail(parts)],
                   chunks)

\* FinalFlush with what is left in buffer parsed as a last block.
FinalFlushParsingTail(s) ==
  LET t == ProcessBlocks([s EXCEPT !.buffer = ""], <<s.buffer>>) IN
  IF Len(t.reasoningBuffer) > 0
  THEN [t EXCEPT !.log = Append(t.log, Split(t.reasoningBuffer, "\n"))]
  ELSE t

\* The flush after the loop: if (reasoningBuffer.length > 0) { ... }; the
\* buffer is not cleared.
FinalFlush(s) ==
  IF Len(s.reasoningBuffer) > 0
  THEN [s EXCEPT !.log = Append(s.log, LinesToLog(s.reasoningBuffer))]
  ELSE s

\* The closure variables when the drain task starts.
InitSide ==
  [pending |-> "", buffer |-> "", reasoningBuffer |-> "", log |-> <<>>,
   extracted |-> ""]

(***************************************************************************)
(* The upstream's event streams.  A stream is rendered from its blocks     *)
(* (each a sequence of lines, ended by a blank line) and an unterminated   *)
(* tail.                                                                   *)
(***************************************************************************)
DataLine(payload) == "data: " \o payload
ReasoningLine(fragment) == DataLine(DocPrefix \o fragment \o DocSuffix)
NoSpaceLine(fragment) == "data:" \o DocPrefix \o fragment \o DocSuffix
DoneLine == DataLine("[DONE]")
MalformedLine == DataLine("{\"choices\":[{\"delta\"")
NullLine == DataLine(NullDoc)
ContentLine == DataLine(ContentDoc)
CommentLine == ": keep-alive"
EventLine == "event: message"

\* The lines the drain loop discards: a payload that is not JSON, the sentinel.
BadLines == {MalformedLine, DoneLine}

Frag16a == "abcdefghijklmnop"
Frag16b == "ABCDEFGHIJKLMNOP"
Frag32 == "0123456789abcdefghijklmnopqrstuv"
FragEscaped == "first line\\nsecond \\\"line\\\""
FragUtf8 == "caf" \o LeadByte \o ContByte

RECURSIVE RenderBlocks(_)
RenderBlocks(blocks) ==
  IF Len(blocks) = 0 THEN ""
  ELSE Join(Head(blocks), "\n") \o "\n\n" \o RenderBlocks(Tail(blocks))

Render(shape) == RenderBlocks(shape.blocks) \o shape.tail

\* The same stream with the discarded lines absent.
WithoutBadLines(shape) ==
  [blocks |-> [i \in 1..Len(shape.blocks) |->
                 SelectSeq(shape.blocks[i], LAMBDA l : l \notin BadLines)],
   tail |-> shape.tail]

DrainShapes ==
  { [blocks |-> << <<ReasoningLine(Frag16a)>>, <<ReasoningLine(Frag16b)>>,
                   <<DoneLine>> >>, tail |-> ""],
    [blocks |-> << <<ReasoningLine(Frag32)>> >>, tail |-> ""],
    [blocks |-> << <<MalformedLine, ReasoningLine("ab"), DoneLine,
                     ReasoningLine("cd")>>,
                   <<MalformedLine>>, <<ReasoningLine("ef")>> >>, tail |-> ""],
    [blocks |-> << <<ReasoningLine(FragEscaped), ReasoningLine(Frag16a)>> >>,
     tail |-> ""],
    [blocks |-> << <<CommentLine, ReasoningLine(FragUtf8)>> >>,
     tail |-> ReasoningLine("zz")],
    [blocks |-> << <<NoSpaceLine("ab")>>, <<ContentLine>>, <<NullLine>>,
                   <<EventLine, ReasoningLine("cd")>> >>, tail |-> ""],
    [blocks |-> << <<ReasoningLine(Frag16a)>>, <<ReasoningLine(Frag16b)>>,
                   <<ReasoningLine(Frag16a)>> >>, tail |-> "\n"],
    [blocks |-> << <<ReasoningLine("ab"), "">>, <<ReasoningLine("cd")>> >>,
     tail |-> ""] }

(***************************************************************************)
(* The inbound request, the server configuration and the upstream.         *)
(***************************************************************************)
AllowedModelBody == "{\"model\":\"deepseek-chat\"}"
OtherModelBody == "{\"model\":\"deepseek-reasoner\"}"
NoModelBody == "{}"
UnparseableBody == "{\"model\":"

\* req.body: null, or a stream that req.text() reads as text.
RequestBodies ==
  { [present |-> FALSE, text |-> ""],
    [present |-> TRUE, text |-> AllowedModelBody],
    [present |-> TRUE, text |-> OtherModelBody],
    [present |-> TRUE, text |-> NoModelBody],
    [present |-> TRUE, text |-> UnparseableBody] }

\* serverConfig.customModels: empty (falsy), or an allowlist.
CustomModelsConfigs ==
  { [configured |-> FALSE, allow |-> {}],
    [configured |-> TRUE, allow |-> {"deepseek-chat"}] }

\* JSON.parse(clonedBody) as { model?: string }: [throws, model], model
\* "undefined" when the field is absent.
ParseModel(text) ==
  IF text = NoModelBody THEN [throws |-> FALSE, model |-> "undefined"]
  ELSE IF /\ Len(text) >= Len("{\"model\":\"") + Len("\"}")
          /\ StartsWith(text, "{\"model\":\"")
          /\ EndsWith(text, "\"}")
          /\ JsonStringOk(SubSeq(text, Len("{\"model\":\"") + 1, Len(text) - 2))
    THEN [throws |-> FALSE,
          model |-> JsonUnescape(SubSeq(text, Len("{\"model\":\"") + 1,
                                        Len(text) - 2))]
  ELSE [throws |-> TRUE, model |-> "undefined"]

\* The policy predicate of app/utils/model: true when the model is not in
\* the allowlist.
isModelNotavailableInServer(customModels, model, provider) ==
  model \notin customModels.allow

\* The upstream responses: status, statusText, headers and the body (bytes),
\* or no body at all.
UpstreamResponses ==
  { [status |-> 200, statusText |-> "OK",
     headers |-> [n \in {"content-type"} |-> "text/event-stream"],
     hasBody |-> TRUE,
     body |-> Render([blocks |-> << <<MalformedLine, ReasoningLine(FragUtf8)>>,
                                    <<DoneLine>> >>,
                      tail |-> ""])],
    [status |-> 401, statusText |-> "Unauthorized",
     headers |-> [n \in {"www-authenticate", "x-accel-buffering"} |->
                    IF n = "www-authenticate" THEN "Bearer" ELSE "yes"],
     hasBody |-> TRUE,
     body |-> "{\"error\":1}"],
    [status |-> 204, statusText |-> "No Content",
     headers |-> [n \in {"content-type"} |-> "text/event-stream"],
     hasBody |-> FALSE,
     body |-> ""] }

\* NewHeaders without the delete.
NewHeadersKeepAuthenticate(headers) ==
  [n \in DOMAIN headers \cup {"x-accel-buffering"} |->
     IF n = "x-accel-buffering" THEN "no" ELSE headers[n]]

\* new Headers(res.headers); delete("www-authenticate");
\* set("X-Accel-Buffering", "no").  Header names are case-insensitive and kept
\* in lower case.
NewHeaders(headers) ==
  [n \in (DOMAIN headers \ {"www-authenticate"}) \cup {"x-accel-buffering"} |->
     IF n = "x-accel-buffering" THEN "no" ELSE headers[n]]

(***************************************************************************)
(* Bounds of the model.                                                    *)
(***************************************************************************)
\* A read delivers at most MaxChunk bytes, or all that remain.
MaxChunk == 3
\* Time advances in steps of TickMs, MaxTicks times.
MaxTicks == 3
TickMs == 5 * 60 * 1000

\* The delay of setTimeout.
TIMEOUT_MS == 10 * 60 * 1000

ChunkSizes(remaining) == {n \in 1..remaining : n <= MaxChunk \/ n = remaining}

(***************************************************************************)
(* State.                                                                  *)
(***************************************************************************)
VARIABLES
  method,          \* req.method
  authError,       \* authResult.error
  customModels,    \* serverConfig.customModels
  reqBody,         \* req.body
  pc,              \* the orchestrator: start, readBody, fetching, returned
  response,        \* what handle() returned
  fetchBody,       \* fetchOptions.body
  fetchState,      \* the outbound call: none, pending, resolved, rejected
  fetchCount,      \* outbound calls issued
  issuedAt,        \* when the outbound call was issued
  timer,           \* timeoutId: none, armed, fired, cleared
  clearCount,      \* clearTimeout(timeoutId) calls
  aborted,         \* controller.signal.aborted
  now,             \* milliseconds since the request arrived
  upstream,        \* res.body: [body, state]
  readBytes,       \* the bytes reader.read() has returned, in order
  value,           \* the chunk held by the loop
  clientBytes,     \* the bytes written to the client-facing stream, in order
  client,          \* the client-facing stream: open, closed, cancelled
  closeCount,      \* writer.close() calls that closed the stream
  inFlight,        \* chunks read and not yet written to the client
  side,            \* decoder, buffer, reasoningBuffer, log
  drainPc,         \* the drain task: none, noBody, read, write, close, done,
                   \* readFailed, writeFailed, closeFailed
  unhandled        \* the drain task's promise rejected, with no handler

vars ==
  <<method, authError, customModels, reqBody, pc, response, fetchBody,
    fetchState, fetchCount, issuedAt, timer, clearCount, aborted, now, upstream,
    readBytes, value, clientBytes, client, closeCount, inFlight, side, drainPc,
    unhandled>>

inputVars == <<method, authError, customModels, reqBody>>
timerVars == <<timer, clearCount, aborted>>
fetchVars == <<fetchBody, fetchState, fetchCount, issuedAt>>
drainVars ==
  <<upstream, readBytes, value, clientBytes, client, closeCount, inFlight, side,
    drainPc, unhandled>>

NoHeaders == [n \in {} |-> ""]

\* handle() has not returned.
NoResponse ==
  [kind |-> "none", status |-> 0, statusText |-> "", headers |-> NoHeaders,
   body |-> ""]

\* NextResponse.json(body, { status })
JsonResponse(kind, status, body) ==
  [kind |-> kind, status |-> status, statusText |-> "",
   headers |-> [n \in {"content-type"} |-> "application/json"],
   body |-> body]

Init ==
  /\ method \in {"OPTIONS", "POST"}
  /\ authError \in BOOLEAN
  /\ customModels \in CustomModelsConfigs
  /\ reqBody \in RequestBodies
  /\ pc = "start"
  /\ response = NoResponse
  /\ fetchBody = [kind |-> "none", text |-> ""]
  /\ fetchState = "none"
  /\ fetchCount = 0
  /\ issuedAt = 0
  /\ timer = "none"
  /\ clearCount = 0
  /\ aborted = FALSE
  /\ now = 0
  /\ upstream = [body |-> "", state |-> "none"]
  /\ readBytes = ""
  /\ value = ""
  /\ clientBytes = ""
  /\ client = "none"
  /\ closeCount = 0
  /\ inFlight = 0
  /\ side = InitSide
  /\ drainPc = "none"
  /\ unhandled = FALSE

(***************************************************************************)
(* The orchestrator: handle() and request(), one action for each stretch   *)
(* of code between two suspension points.                                  *)
(***************************************************************************)
\* The outbound call is issued: fetch(fetchUrl, fetchOptions).
IssueFetch(body) ==
  /\ fetchBody' = body
  /\ fetchState' = "pending"
  /\ fetchCount' = fetchCount + 1
  /\ issuedAt' = now
  /\ pc' = "fetching"

\* finally { clearTimeout(timeoutId) }
ClearTimeoutInFinally ==
  /\ timer' = IF timer = "armed" THEN "cleared" ELSE timer
  /\ clearCount' = clearCount + 1

\* if (req.method === "OPTIONS") return NextResponse.json({ body: "OK" }, ...)
HandleOptions ==
  /\ pc = "start"
  /\ method = "OPTIONS"
  /\ response' = JsonResponse("options", 200, "{\"body\":\"OK\"}")
  /\ pc' = "returned"
  /\ UNCHANGED <<inputVars, fetchVars, timerVars, now, drainVars>>

\* if (authResult.error) return NextResponse.json(authResult, { status: 401 })
HandleAuthError ==
  /\ pc = "start"
  /\ method # "OPTIONS"
  /\ authError
  /\ response' = JsonResponse("unauthorized", 401, "authResult")
  /\ pc' = "returned"
  /\ UNCHANGED <<inputVars, fetchVars, timerVars, now, drainVars>>

\* RequestStart with the result of auth() not looked at.
RequestStartNoAuth ==
  /\ pc = "start"
  /\ method # "OPTIONS"
  /\ timer' = "armed"
  /\ aborted' = FALSE
  /\ IF customModels.configured /\ reqBody.present
     THEN /\ pc' = "readBody"
          /\ fetchBody' = [kind |-> "stream", text |-> reqBody.text]
          /\ UNCHANGED <<fetchState, fetchCount, issuedAt>>
     ELSE IssueFetch(IF reqBody.present
                     THEN [kind |-> "stream", text |-> reqBody.text]
                     ELSE [kind |-> "none", text |-> ""])
  /\ UNCHANGED <<inputVars, response, clearCount, now, drainVars>>

\* request(), up to its first await: the controller, the timer and
\* fetchOptions are set up; then either req.text() is awaited or the
\* outbound call is issued.
RequestStart ==
  /\ pc = "start"
  /\ method # "OPTIONS"
  /\ ~authError
  /\ timer' = "armed"
  /\ aborted' = FALSE
  /\ IF customModels.configured /\ reqBody.present
     THEN /\ pc' = "readBody"
          /\ fetchBody' = [kind |-> "stream", text |-> reqBody.text]
          /\ UNCHANGED <<fetchState, fetchCount, issuedAt>>
     ELSE IssueFetch(IF reqBody.present
                     THEN [kind |-> "stream", text |-> reqBody.text]
                     ELSE [kind |-> "none", text |-> ""])
  /\ UNCHANGED <<inputVars, response, clearCount, now, drainVars>>

\* PolicyCheck answering 403 when the body does not parse.
PolicyCheckFailClosed ==
  /\ pc = "readBody"
  /\ LET clonedBody == reqBody.text
         jsonBody == ParseModel(clonedBody)
     IN
     IF \/ jsonBody.throws
        \/ isModelNotavailableInServer(customModels, jsonBody.model, "DeepSeek")
     THEN /\ response' =
               JsonResponse("forbidden", 403,
                 "{\"error\":true,\"message\":\"you are not allowed to use "
                   \o jsonBody.model \o " model\"}")
          /\ pc' = "returned"
          /\ fetchBody' = [kind |-> "text", text |-> clonedBody]
          /\ UNCHANGED <<fetchState, fetchCount, issuedAt>>
     ELSE /\ IssueFetch([kind |-> "text", text |-> clonedBody])
          /\ UNCHANGED response
  /\ UNCHANGED <<inputVars, timerVars, now, drainVars>>

\* PolicyCheck with the result of the predicate ignored.
PolicyCheckIgnored ==
  /\ pc = "readBody"
  /\ IssueFetch([kind |-> "text", text |-> reqBody.text])
  /\ UNCHANGED <<inputVars, response, timerVars, now, drainVars>>

\* req.text() has resolved: the allowlist check, then the outbound call.
PolicyCheck ==
  /\ pc = "readBody"
  /\ LET clonedBody == reqBody.text
         jsonBody == ParseModel(clonedBody)
     IN
     IF /\ ~jsonBody.throws
        /\ isModelNotavailableInServer(customModels, jsonBody.model, "DeepSeek")
     THEN /\ response' =
               JsonResponse("forbidden", 403,
                 "{\"error\":true,\"message\":\"you are not allowed to use "
                   \o jsonBody.model \o " model\"}")
          /\ pc' = "returned"
          /\ fetchBody' = [kind |-> "text", text |-> clonedBody]
          /\ UNCHANGED <<fetchState, fetchCount, issuedAt>>
     ELSE /\ IssueFetch([kind |-> "text", text |-> clonedBody])
          /\ UNCHANGED response
  /\ UNCHANGED <<inputVars, timerVars, now, drainVars>>

\* The closure started by request(), up to its first await:
\* res.body?.getReader(), then the first reader.read().
StartDrain(res) ==
  /\ upstream' = [body |-> res.body,
                  state |-> IF res.hasBody THEN "open" ELSE "none"]
  /\ drainPc' = IF res.hasBody THEN "read" ELSE "noBody"
  /\ client' = "open"
  /\ side' = InitSide
  /\ UNCHANGED <<readBytes, value, clientBytes, closeCount,
                 inFlight, unhandled>>

\* The response request() returns for the upstream response res.
RelayResponse(res) ==
  [kind |-> "relay", status |-> res.status, statusText |-> res.statusText,
   headers |-> NewHeaders(res.headers), body |-> "readable"]

\* await fetch(...) resolves with the upstream's headers: the relay stream
\* and the drain task are created, the response is returned, the timer is
\* cleared.
FetchResolves ==
  /\ pc = "fetching"
  /\ fetchState = "pending"
  /\ ~aborted
  /\ \E res \in UpstreamResponses :
       /\ StartDrain(res)
       /\ response' = RelayResponse(res)
  /\ fetchState' = "resolved"
  /\ ClearTimeoutInFinally
  /\ pc' = "returned"
  /\ UNCHANGED <<inputVars, fetchBody, fetchCount, issuedAt, aborted, now>>

\* FetchRejects with the outbound call issued again after a failure.
FetchRejectsRetry ==
  /\ pc = "fetching"
  /\ fetchState = "pending"
  /\ fetchCount' = fetchCount + 1
  /\ UNCHANGED <<inputVars, pc, response, fetchBody, fetchState, issuedAt,
                 timerVars, now, drainVars>>

\* FetchRejects with clearTimeout after the await instead of in a finally.
FetchRejectsNoFinally ==
  /\ pc = "fetching"
  /\ fetchState = "pending"
  /\ fetchState' = "rejected"
  /\ response' = JsonResponse("error", 200,
                   IF aborted THEN "AbortError" ELSE "TypeError: fetch failed")
  /\ pc' = "returned"
  /\ UNCHANGED <<inputVars, fetchBody, fetchCount, issuedAt, timerVars, now,
                 drainVars>>

\* await fetch(...) rejects (network error, or the signal aborted): the
\* timer is cleared, handle() catches and answers prettyObject(e).
FetchRejects ==
  /\ pc = "fetching"
  /\ fetchState = "pending"
  /\ fetchState' = "rejected"
  /\ ClearTimeoutInFinally
  /\ response' = JsonResponse("error", 200,
                   IF aborted THEN "AbortError" ELSE "TypeError: fetch failed")
  /\ pc' = "returned"
  /\ UNCHANGED <<inputVars, fetchBody, fetchCount, issuedAt, aborted, now,
                 drainVars>>

(***************************************************************************)
(* The timer and the clock.                                                *)
(***************************************************************************)
\* controller.abort(): the signal aborts; a response body being read errors.
Abort ==
  /\ aborted' = TRUE
  /\ upstream' = IF upstream.state = "open"
                 THEN [upstream EXCEPT !.state = "errored"] ELSE upstream

\* The callback of setTimeout runs once the delay has passed.
TimerFires ==
  /\ timer = "armed"
  /\ now >= TIMEOUT_MS
  /\ timer' = "fired"
  /\ Abort
  /\ UNCHANGED <<inputVars, pc, response, fetchVars, clearCount, now,
                 readBytes, value, clientBytes, client, closeCount,
                 inFlight, side,
                 drainPc, unhandled>>

\* Time passes; a timer that is due runs first.
Tick ==
  /\ pc # "start"
  /\ now < MaxTicks * TickMs
  /\ ~(timer = "armed" /\ now >= TIMEOUT_MS)
  /\ now' = now + TickMs
  /\ UNCHANGED <<inputVars, pc, response, fetchVars, timerVars, drainVars>>

(***************************************************************************)
(* The drain task: one action for each stretch of the closure between two  *)
(* awaits, and the two ways each await can end.                            *)
(***************************************************************************)
Remaining == SubSeq(upstream.body, Len(readBytes) + 1, Len(upstream.body))

\* Relay writing the chunk's decoded text instead of the chunk.
RelayDecoded(delivered, chunk) == delivered \o DecodeBytes("", chunk).text

\* writer.write(value): what the client-facing stream holds once the write
\* has completed.
Relay(delivered, chunk) == delivered \o chunk

\* ReadChunk with the next read issued while the write of the last chunk is
\* still pending.
ReadChunkNoAwait ==
  /\ drainPc \in {"read", "write"}
  /\ upstream.state = "open"
  /\ Remaining # ""
  /\ \E n \in ChunkSizes(Len(Remaining)) :
       LET chunk == SubSeq(Remaining, 1, n) IN
       /\ value' = chunk
       /\ readBytes' = readBytes \o chunk
       /\ side' = ProcessChunk(side, chunk)
  /\ drainPc' = "write"
  /\ inFlight' = inFlight + 1
  /\ UNCHANGED <<inputVars, pc, response, fetchVars, timerVars, now, upstream,
                 clientBytes, client, closeCount, unhandled>>

\* reader.read() resolves with a chunk: the side channel runs on it, then
\* writer.write(value) is issued.
ReadChunk ==
  /\ drainPc = "read"
  /\ upstream.state = "open"
  /\ Remaining # ""
  /\ \E n \in ChunkSizes(Len(Remaining)) :
       LET chunk == SubSeq(Remaining, 1, n) IN
       /\ value' = chunk
       /\ readBytes' = readBytes \o chunk
       /\ side' = ProcessChunk(side, chunk)
  /\ drainPc' = "write"
  /\ inFlight' = inFlight + 1
  /\ UNCHANGED <<inputVars, pc, response, fetchVars, timerVars, now, upstream,
                 clientBytes, client, closeCount, unhandled>>

\* ReadDone with the task ending without writer.close().
ReadDoneNoClose ==
  /\ drainPc = "read"
  /\ upstream.state = "open"
  /\ Remaining = ""
  /\ side' = FinalFlush(side)
  /\ value' = ""
  /\ drainPc' = "done"
  /\ UNCHANGED <<inputVars, pc, response, fetchVars, timerVars, now, upstream,
                 readBytes, clientBytes, client, closeCount,
                 inFlight, unhandled>>

\* reader.read() resolves with done: the loop ends, the accumulator is
\* flushed, writer.close() is issued.
ReadDone ==
  /\ drainPc = "read"
  /\ upstream.state = "open"
  /\ Remaining = ""
  /\ side' = FinalFlush(side)
  /\ value' = ""
  /\ drainPc' = "close"
  /\ UNCHANGED <<inputVars, pc, response, fetchVars, timerVars, now, upstream,
                 readBytes, clientBytes, client, closeCount,
                 inFlight, unhandled>>

\* A rejected await throws out of the closure: nothing after it runs, and
\* the closure's promise, which nobody holds, is rejected.
DrainThrows(where) ==
  /\ drainPc' = where
  /\ unhandled' = TRUE

\* reader.read() rejects: the upstream body errored.
ReadFails ==
  /\ drainPc = "read"
  /\ upstream.state = "errored"
  /\ DrainThrows("readFailed")
  /\ UNCHANGED <<inputVars, pc, response, fetchVars, timerVars, now, upstream,
                 readBytes, value, clientBytes, client, closeCount,
                 inFlight, side>>

\* writer.write(value) resolves: the chunk is in the client-facing stream,
\* and the iteration that held it ends.
WriteCompletes ==
  /\ drainPc = "write"
  /\ client = "open"
  /\ clientBytes' = Relay(clientBytes, value)
  /\ value' = ""
  /\ drainPc' = "read"
  /\ inFlight' = inFlight - 1
  /\ UNCHANGED <<inputVars, pc, response, fetchVars, timerVars, now, upstream,
                 readBytes, client, closeCount, side, unhandled>>

\* writer.write(value) rejects: the client cancelled the stream.
WriteFails ==
  /\ drainPc = "write"
  /\ client = "cancelled"
  /\ DrainThrows("writeFailed")
  /\ UNCHANGED <<inputVars, pc, response, fetchVars, timerVars, now, upstream,
                 readBytes, value, clientBytes, client, closeCount,
                 inFlight, side>>

\* writer.close() resolves: the client-facing stream is closed.
CloseCompletes ==
  /\ drainPc = "close"
  /\ client = "open"
  /\ client' = "closed"
  /\ closeCount' = closeCount + 1
  /\ drainPc' = "done"
  /\ UNCHANGED <<inputVars, pc, response, fetchVars, timerVars, now, upstream,
                 readBytes, value, clientBytes, inFlight, side, unhandled>>

\* writer.close() rejects: the client cancelled the stream.
CloseFails ==
  /\ drainPc = "close"
  /\ client = "cancelled"
  /\ DrainThrows("closeFailed")
  /\ UNCHANGED <<inputVars, pc, response, fetchVars, timerVars, now, upstream,
                 readBytes, value, clientBytes, client, closeCount,
                 inFlight, side>>

(***************************************************************************)
(* The environment of the drain task.                                      *)
(***************************************************************************)
\* The client closes the connection: the readable side is cancelled.
ClientDisconnects ==
  /\ client = "open"
  /\ client' = "cancelled"
  /\ UNCHANGED <<inputVars, pc, response, fetchVars, timerVars, now, upstream,
                 readBytes, value, clientBytes, closeCount,
                 inFlight, side, drainPc,
                 unhandled>>

\* The connection to the upstream breaks while the body is being read.
UpstreamFails ==
  /\ upstream.state = "open"
  /\ drainPc \in {"read", "write"}
  /\ upstream' = [upstream EXCEPT !.state = "errored"]
  /\ UNCHANGED <<inputVars, pc, response, fetchVars, timerVars, now,
                 readBytes, value, clientBytes, client, closeCount,
                 inFlight, side,
                 drainPc, unhandled>>

Next ==
  \/ HandleOptions
  \/ HandleAuthError
  \/ RequestStart
  \/ PolicyCheck
  \/ FetchResolves
  \/ FetchRejects
  \/ TimerFires
  \/ Tick
  \/ ReadChunk
  \/ ReadDone
  \/ ReadFails
  \/ WriteCompletes
  \/ WriteFails
  \/ CloseCompletes
  \/ CloseFails
  \/ ClientDisconnects
  \/ UpstreamFails

Spec == Init /\ [][Next]_vars

(***************************************************************************)
(* The drain task alone, on every event stream of DrainShapes: the state   *)
(* after FetchResolves for a POST that passed the checks, then the task's  *)
(* steps with a client that keeps reading and an upstream that delivers    *)
(* the whole body.                                                         *)
(***************************************************************************)
DrainResponses ==
  { [status |-> 200, statusText |-> "OK",
     headers |-> [n \in {"content-type"} |-> "text/event-stream"],
     hasBody |-> TRUE,
     body |-> Render(shape)] : shape \in DrainShapes }

\* The shape a body of DrainResponses was rendered from.
ShapeOf(body) == CHOOSE shape \in DrainShapes : Render(shape) = body

InitDrain ==
  /\ method = "POST"
  /\ authError = FALSE
  /\ customModels = [configured |-> FALSE, allow |-> {}]
  /\ reqBody = [present |-> TRUE, text |-> AllowedModelBody]
  /\ pc = "returned"
  /\ \E res \in DrainResponses :
       /\ response = RelayResponse(res)
       /\ upstream = [body |-> res.body, state |-> "open"]
  /\ fetchBody = [kind |-> "stream", text |-> AllowedModelBody]
  /\ fetchState = "resolved"
  /\ fetchCount = 1
  /\ issuedAt = 0
  /\ timer = "cleared"
  /\ clearCount = 1
  /\ aborted = FALSE
  /\ now = 0
  /\ readBytes = ""
  /\ value = ""
  /\ clientBytes = ""
  /\ client = "open"
  /\ closeCount = 0
  /\ inFlight = 0
  /\ side = InitSide
  /\ drainPc = "read"
  /\ unhandled = FALSE

NextDrain ==
  \/ ReadChunk
  \/ ReadDone
  \/ WriteCompletes
  \/ CloseCompletes

DrainSpec == InitDrain /\ [][NextDrain]_vars

(***************************************************************************)
(* Properties.                                                             *)
(***************************************************************************)
IsPrefix(a, b) == Len(a) <= Len(b) /\ SubSeq(b, 1, Len(a)) = a

\* The text the sink was given: the lines of each flush joined again, the
\* flushes in order.
FlushedText(log) ==
  ConcatRange([i \in 1..Len(log) |-> Join(log[i], "\n")], 1, Len(log))

\* C1: the bytes written to the client-facing stream are at every moment a
\* prefix of the bytes read from upstream: what was read is what was
\* written followed by the one chunk in flight, byte for byte; and once
\* the upstream has signalled end-of-stream the client-facing stream holds
\* the whole upstream body.
C1_RelayIsVerbatim ==
  /\ IsPrefix(clientBytes, readBytes)
  /\ IsPrefix(readBytes, upstream.body)
  /\ readBytes = clientBytes \o value
  /\ drainPc \in {"close", "done", "closeFailed"} => clientBytes = upstream.body

\* C1: a body holding a malformed line and a two-byte character has been
\* relayed to its end in several chunks.
C1_Witness ==
  /\ drainPc = "done"
  /\ IndexOf(upstream.body, MalformedLine, 1) > 0
  /\ IndexOf(clientBytes, LeadByte \o ContByte, 1) > 0
  /\ clientBytes = upstream.body
  /\ Len(upstream.body) > MaxChunk

\* C2: however the chunk boundaries fall, the reasoning text extracted from
\* the bytes read so far is the text extracted when the same bytes arrive
\* as one chunk.
C2_FramingIsSplitInvariant ==
  side.extracted = ProcessChunk(InitSide, readBytes).extracted

\* C2: a chunk boundary fell inside the "data:" prefix of a line, after an
\* earlier event was extracted from split chunks.
C2_Witness ==
  /\ side.buffer = "dat"
  /\ side.extracted # ""
  /\ Remaining # ""

\* C3: while the loop runs, the text flushed so far followed by the
\* accumulator is the text extracted so far; once the upstream has
\* signalled end-of-stream, the text flushed is the text extracted.
C3_FlushedExactlyOnce ==
  /\ drainPc \in {"read", "write"} =>
       FlushedText(side.log) \o side.reasoningBuffer = side.extracted
  /\ drainPc \in {"close", "done"} => FlushedText(side.log) = side.extracted

\* C3: a stream whose text was flushed once at the threshold and once at
\* the end.
C3_Witness ==
  /\ drainPc = "done"
  /\ Len(side.log) = 2
  /\ side.extracted = Frag16a \o Frag16b \o Frag16a
  /\ FlushedText(side.log) = side.extracted

\* C4: after a write to the client-facing stream failed, the drain task has
\* ended with the failure handled: its promise is not rejected unhandled.
C4_WriteFailureIsHandled == drainPc = "writeFailed" => ~unhandled

\* C5: when more than 10 minutes have passed since the outbound call was
\* issued and the request is still awaiting headers or streaming the body,
\* the cancellation signal has fired.
C5_TimeoutCoversTheStream ==
  ( /\ \/ fetchState = "pending"
       \/ fetchState = "resolved" /\ drainPc \in {"read", "write", "close"}
    /\ now - issuedAt > TIMEOUT_MS )
  => aborted

\* C6: when the drain task has ended on an upstream read failure after
\* relaying some bytes, the client-facing stream is not left open.
C6_CutShortStreamEnds ==
  (drainPc = "readFailed" /\ clientBytes # "") => client # "open"

PolicyApplies ==
  /\ method # "OPTIONS"
  /\ ~authError
  /\ customModels.configured
  /\ reqBody.present
  /\ ~ParseModel(reqBody.text).throws

PolicyDenies ==
  isModelNotavailableInServer(customModels, ParseModel(reqBody.text).model,
                              "DeepSeek")

\* C7: with an allowlist configured and a body that parses, a model the
\* predicate denies is answered 403 with the message naming the model and
\* no outbound call is ever issued; a model it allows has the outbound call
\* issued.
C7_DeniedModelIsNotForwarded ==
  /\ (PolicyApplies /\ PolicyDenies) =>
       /\ fetchCount = 0
       /\ fetchState = "none"
       /\ pc = "returned" =>
            /\ response.status = 403
            /\ response.body =
                 "{\"error\":true,\"message\":\"you are not allowed to use "
                   \o ParseModel(reqBody.text).model \o " model\"}"
  /\ (PolicyApplies /\ ~PolicyDenies /\ pc \in {"fetching", "returned"}) =>
       fetchCount = 1

\* C7: a request for a model outside the allowlist has been answered.
C7_Witness ==
  /\ reqBody.text = OtherModelBody
  /\ customModels.configured
  /\ pc = "returned"
  /\ response.status = 403
  /\ response.body =
       "{\"error\":true,\"message\":\"you are not allowed to use deepseek-reasoner model\"}"
  /\ fetchCount = 0

\* C8: once the outbound call has completed or failed, clearTimeout has
\* been called exactly once and the timer is no longer pending; before
\* that it has not been called.
C8_TimerClearedOnce ==
  /\ fetchState \in {"resolved", "rejected"} =>
       clearCount = 1 /\ timer # "armed"
  /\ fetchState \in {"none", "pending"} => clearCount = 0

\* C8: the outbound call failed on a network error and the timer was
\* cancelled.
C8_Witness ==
  /\ fetchState = "rejected"
  /\ ~aborted
  /\ timer = "cleared"
  /\ clearCount = 1

\* The side state of the same stream with its discarded lines absent, read
\* to its end.
WithoutBadLinesSide ==
  FinalFlush(ProcessChunk(InitSide,
                          Render(WithoutBadLines(ShapeOf(upstream.body)))))

\* C9: once the stream has been read to its end, the text extracted and the
\* lines logged are those of the same stream without its malformed and
\* sentinel lines, and no logged line holds the sentinel.
C9_BadLineIsDiscardedAlone ==
  drainPc \in {"close", "done"} =>
    /\ side.extracted = WithoutBadLinesSide.extracted
    /\ side.log = WithoutBadLinesSide.log
    /\ \A i \in 1..Len(side.log) : \A j \in 1..Len(side.log[i]) :
         IndexOf(side.log[i][j], "[DONE]", 1) = 0

\* C9: a stream with a malformed line and the sentinel between well-formed
\* lines of one block, and a malformed line in a block of its own, has been
\* read to its end.
C9_Witness ==
  /\ drainPc = "done"
  /\ ShapeOf(upstream.body) # WithoutBadLines(ShapeOf(upstream.body))
  /\ side.extracted = "abcdef"

\* C10: the client-facing stream is closed only by the task that read the
\* upstream to its end, after every byte read was written; the task ends
\* normally only with the stream closed; the stream is closed at most once,
\* and nothing is written to it once it is closed.
C10_ClosedAtEndOfStream ==
  /\ [] /\ client = "closed" =>
             /\ drainPc = "done"
             /\ Remaining = ""
             /\ clientBytes = readBytes
        /\ drainPc = "close" => (Remaining = "" /\ clientBytes = readBytes)
        /\ drainPc = "done" => client = "closed"
        /\ closeCount <= 1
  /\ [][client = "closed" =>
          (client' = "closed" /\ clientBytes' = clientBytes
             /\ closeCount' = closeCount)]_vars

\* C10: a body of several chunks was relayed and the stream closed.
C10_Witness ==
  /\ client = "closed"
  /\ closeCount = 1
  /\ clientBytes = upstream.body
  /\ Len(upstream.body) > MaxChunk

Forwardable == method # "OPTIONS" /\ ~authError

\* The body is absent, or an allowlist is configured and the body does not
\* parse.
PolicySkipped ==
  \/ ~reqBody.present
  \/ customModels.configured /\ ParseModel(reqBody.text).throws

\* C11: a request with no body, or with an allowlist configured and a body
\* that is not JSON, is never answered 403 and has its outbound call issued
\* by the time request() is past the policy check; the unparseable body is
\* sent upstream as the text that was read.
C11_PolicyFailsOpen ==
  (Forwardable /\ PolicySkipped) =>
    /\ response.status # 403
    /\ pc \in {"fetching", "returned"} => fetchCount = 1
    /\ (reqBody.present /\ fetchCount = 1) =>
         fetchBody = [kind |-> "text", text |-> reqBody.text]

\* C11: with an allowlist configured, an unparseable body went upstream and
\* the upstream answered.
C11_Witness ==
  /\ Forwardable
  /\ customModels.configured
  /\ reqBody.text = UnparseableBody
  /\ fetchState = "resolved"
  /\ fetchBody.text = UnparseableBody
  /\ response.kind = "relay"

\* C12: an outbound call is issued only for a request that is not OPTIONS
\* and passed authentication; OPTIONS is answered 200 {"body":"OK"} whatever
\* authentication would say, an authentication error is answered 401 with
\* the collaborator's payload, and in both cases request() never runs: no
\* timer, no policy check, no outbound call.
C12_OnlyAuthenticatedRequestsForwarded ==
  /\ fetchCount > 0 => Forwardable
  /\ ~Forwardable =>
       /\ fetchCount = 0
       /\ fetchState = "none"
       /\ timer = "none"
       /\ pc \in {"start", "returned"}
  /\ (method = "OPTIONS" /\ pc = "returned") =>
       response.status = 200 /\ response.body = "{\"body\":\"OK\"}"
  /\ (method # "OPTIONS" /\ authError /\ pc = "returned") =>
       response.status = 401 /\ response.body = "authResult"

\* C12: an OPTIONS request that authentication would refuse was answered
\* 200.
C12_Witness ==
  /\ method = "OPTIONS"
  /\ authError
  /\ pc = "returned"
  /\ response.status = 200
  /\ fetchCount = 0

\* C13: when the outbound call has failed before the upstream's headers,
\* handle() has returned the JSON error response, no relay stream and no
\* drain task exist, and the call was issued once; no request has more than
\* one outbound call.
C13_FailedFetchIsAnsweredNotRetried ==
  /\ fetchCount <= 1
  /\ fetchState = "rejected" =>
       /\ pc = "returned"
       /\ response.kind = "error"
       /\ response.body \in {"AbortError", "TypeError: fetch failed"}
       /\ drainPc = "none"
       /\ client = "none"
       /\ fetchCount = 1

\* C13: the timer aborted the outbound call before the headers arrived and
\* the error response was returned.
C13_Witness ==
  /\ fetchState = "rejected"
  /\ aborted
  /\ timer = "fired"
  /\ response.kind = "error"
  /\ response.body = "AbortError"

\* C14: between events the accumulator holds fewer than 32 characters, and
\* every flush made before end-of-stream is of 32 characters or more: an
\* append that brings the accumulator to 32 or beyond, exactly 32 included,
\* is flushed and cleared at once.
C14_FlushAtThreshold ==
  /\ Len(side.reasoningBuffer) < LOG_THRESHOLD
  /\ \A i \in 1..Len(side.log) :
       \/ Len(Join(side.log[i], "\n")) >= LOG_THRESHOLD
       \/ i = Len(side.log) /\ drainPc \in {"close", "done"}

\* C14: one append of exactly 32 characters was flushed before
\* end-of-stream and left the accumulator empty.
C14_Witness ==
  /\ drainPc \in {"read", "write"}
  /\ side.extracted = Frag32
  /\ side.log = << <<Frag32>> >>
  /\ side.reasoningBuffer = ""

\* The upstream response whose body is being relayed.
ReceivedResponse ==
  CHOOSE res \in UpstreamResponses :
    res.body = upstream.body /\ res.hasBody = (upstream.state # "none")

Terminal ==
  /\ pc = "returned"
  /\ drainPc \in {"none", "noBody", "done", "readFailed", "writeFailed",
                  "closeFailed"}

\* C16: in every terminal state of the request the timer is not pending.
C16_NoTimerLeftPending == Terminal => timer # "armed"

\* C17: after a write to the client-facing stream failed, the cancellation
\* signal has fired and the upstream body is no longer open.
C17_WriteFailureCancelsUpstream ==
  drainPc = "writeFailed" => (aborted /\ upstream.state # "open")

\* The side state of the terminated blocks of the stream alone, read to
\* their end.
TerminatedBlocksSide ==
  FinalFlush(ProcessChunk(InitSide,
                          RenderBlocks(ShapeOf(upstream.body).blocks)))

\* C18: once the upstream has signalled end-of-stream, the text extracted
\* and the lines logged are those of the terminated blocks alone, and the
\* unterminated tail is still in buffer, unparsed; the client-facing stream
\* then holds the whole body, tail included.
C18_TailIsNotParsed ==
  /\ drainPc \in {"close", "done"} =>
       /\ side.extracted = TerminatedBlocksSide.extracted
       /\ side.log = TerminatedBlocksSide.log
       /\ side.buffer = DecodeBytes("", ShapeOf(upstream.body).tail).text
  /\ drainPc = "done" => clientBytes = upstream.body

\* C18: a stream ending in a well-formed data line with no blank line after
\* it was relayed whole, and the line contributed nothing.
C18_Witness ==
  /\ drainPc = "done"
  /\ ShapeOf(upstream.body).tail = ReasoningLine("zz")
  /\ side.buffer = ReasoningLine("zz")
  /\ side.extracted = "caf" \o DecodedChar
  /\ IndexOf(side.extracted, "zz", 1) = 0
  /\ EndsWith(clientBytes, ReasoningLine("zz"))

\* What a line contributes as the claim has it: the payload after "data:",
\* with or without a space, when it is a document with a non-empty
\* reasoning_content; nothing for any other line.
ClaimedFragment(bytes) ==
  LET line == DecodeBytes("", bytes).text IN
  IF ~StartsWith(line, "data:") THEN ""
  ELSE LET payload == Trim(SubSeq(line, 6, Len(line))) IN
       IF payload = "[DONE]" THEN ""
       ELSE ParseReasoning(payload).reasoning_content

ClaimedBlockText(block) ==
  ConcatRange([i \in 1..Len(block) |-> ClaimedFragment(block[i])],
              1, Len(block))

ClaimedText(shape) ==
  ConcatRange([i \in 1..Len(shape.blocks) |->
                 ClaimedBlockText(shape.blocks[i])],
              1, Len(shape.blocks))

\* C19: once the stream has been read to its end, the text extracted is
\* the reasoning_content of every "data:" line of its complete blocks, with
\* or without a space after the colon, each once and in order.
C19_EveryDataLineIsExtracted ==
  drainPc \in {"close", "done"} =>
    side.extracted = ClaimedText(ShapeOf(upstream.body))

\* C20: at most one chunk is read and not yet written; a read is pending
\* only when every chunk read has been written; and while the write of a
\* chunk is pending the side channel has already taken in every byte read,
\* that chunk included.
C20_OneChunkInFlight ==
  /\ inFlight \in {0, 1}
  /\ drainPc = "read" => inFlight = 0 /\ clientBytes = readBytes
  /\ drainPc = "write" =>
       /\ inFlight = 1
       /\ readBytes = clientBytes \o value
       /\ side.extracted = ProcessChunk(InitSide, readBytes).extracted

\* C20: a second chunk is waiting to be written, after the first one was,
\* and its reasoning content is already extracted.
C20_Witness ==
  /\ drainPc = "write"
  /\ inFlight = 1
  /\ clientBytes # ""
  /\ value # ""
  /\ side.extracted # ""

====
